---- MODULE Spec2Model ----
(***************************************************************************)
(* FactuClean processor (src/main.py): the /tally-processor handler.       *)
(* A Tally submission carries a list of invoice URLs, a client e-mail and  *)
(* a client name.  The handler asks Gemini for the fields of each invoice, *)
(* compiles the rows into one Excel file and mails it to the client.       *)
(*                                                                         *)
(* Several submissions are in flight at once; one step of the model is one *)
(* call made by one handler (the validation of the body, one extraction,   *)
(* the Excel build, the SMTP session).                                     *)
(***************************************************************************)
EXTENDS Integers, Sequences, FiniteSets, TLC

\* ------------------------------------------------------------------ bounds
NReq == 2
MaxUrls == 2

Reqs == 1..NReq
Urls == {"http://f/1.png", "http://f/2.png"}
Emails == {"a@x.fr", "b@x.fr"}
EmailTexts == Emails \cup {"pas-un-email"}
Names == {"Alice"}
Keys == {"invoice_urls", "client_email", "client_name"}

RECURSIVE SeqsUpTo(_, _)
SeqsUpTo(S, n) ==
    IF n = 0 THEN {<<>>}
    ELSE LET shorter == SeqsUpTo(S, n - 1)
         IN  shorter \cup {Append(s, x) : s \in {t \in shorter : Len(t) = n - 1}, x \in S}

UrlLists == SeqsUpTo(Urls, MaxUrls)

\* ------------------------------------------------- the body of the webhook
\* A JSON body: the keys it carries and their values (an absent key has the
\* empty value, which is never read).
Payloads ==
    { [keys |-> ks,
       invoice_urls |-> IF "invoice_urls" \in ks THEN us ELSE <<>>,
       client_email |-> IF "client_email" \in ks THEN e ELSE "",
       client_name  |-> IF "client_name" \in ks THEN n ELSE ""] :
      ks \in SUBSET Keys, us \in UrlLists, e \in EmailTexts, n \in Names }

NoPayload == [keys |-> {}, invoice_urls |-> <<>>, client_email |-> "", client_name |-> ""]
NoSubmission == [invoice_urls |-> <<>>, client_email |-> "", client_name |-> ""]

\* EmailStr: the text is an e-mail address.
IsEmailStr(e) == e \in Emails

\* TallySubmission: the three fields are required, client_email is an EmailStr.
ValidateEmailOptional(p) ==
    /\ "invoice_urls" \in p.keys
    /\ "client_name" \in p.keys
    /\ ("client_email" \in p.keys => IsEmailStr(p.client_email))

Validate(p) ==
    /\ "invoice_urls" \in p.keys
    /\ "client_email" \in p.keys
    /\ "client_name" \in p.keys
    /\ IsEmailStr(p.client_email)

TallySubmission(p) ==
    [invoice_urls |-> p.invoice_urls,
     client_email |-> p.client_email,
     client_name  |-> p.client_name]

\* --------------------------------------------------------- the AI's answer
\* The text Gemini answers with, as a sequence of tokens: a markdown fence,
\* the language tag "json", a JSON object, a JSON array, or prose.
TFence == [kind |-> "fence", arg |-> ""]
TJson  == [kind |-> "json", arg |-> ""]
TObj(u) == [kind |-> "obj", arg |-> u]
TArr   == [kind |-> "arr", arg |-> ""]
TProse == [kind |-> "prose", arg |-> ""]

\* What generate_content can do for the prompt about url u: answer with one
\* of these texts, or fail ("raise": network, authentication, rate limit).
AiTexts(u) ==
    { <<TObj(u)>>,
      <<TJson, TObj(u)>>,
      <<TFence, TJson, TObj(u), TFence>>,
      <<TArr>>,
      <<TProse>> }

AiOutcomes(u) == {[raised |-> FALSE, text |-> t] : t \in AiTexts(u)}
                 \cup {[raised |-> TRUE, text |-> <<>>]}

\* The invoice the model reads at url u.
InvoiceNumber(u) == IF u = "http://f/1.png" THEN "F-001" ELSE "F-002"
InvoiceObject(u) == [invoice_number |-> InvoiceNumber(u), supplier_name |-> "N/A"]

\* str.replace(old, ""): every occurrence of the token is removed.
RECURSIVE Replace(_, _)
Replace(text, tok) ==
    IF text = <<>> THEN <<>>
    ELSE IF Head(text) = tok THEN Replace(Tail(text), tok)
    ELSE <<Head(text)>> \o Replace(Tail(text), tok)

\* response.text.strip().replace("json", "").replace("", ""): the second
\* replace has an empty pattern and an empty replacement and changes nothing.
Clean(text) == Replace(text, TJson)

\* json.loads: exactly one JSON value, nothing around it.
Loads(text) ==
    IF Len(text) = 1 /\ text[1].kind = "obj"
        THEN [tag |-> "dict", val |-> InvoiceObject(text[1].arg)]
    ELSE IF Len(text) = 1 /\ text[1].kind = "arr"
        THEN [tag |-> "list", val |-> InvoiceObject("")]
    ELSE [tag |-> "JSONDecodeError", val |-> InvoiceObject("")]

\* extract_data_with_ai: the parsed value, or HTTPException(500) for any
\* exception of the call or of the parse.
extract_data_with_ai(image_url, out) ==
    IF out.raised THEN [tag |-> "HTTPException", val |-> InvoiceObject("")]
    ELSE LET v == Loads(Clean(out.text))
         IN  IF v.tag = "JSONDecodeError"
                 THEN [tag |-> "HTTPException", val |-> InvoiceObject("")]
                 ELSE v

\* d[k] = v on a dict.
SetItem(d, k, v) == [x \in (DOMAIN d) \cup {k} |-> IF x = k THEN v ELSE d[x]]

\* ------------------------------------------------------------ the Excel file
\* pd.DataFrame(data_list).to_excel(...): one sheet, the union of the keys as
\* columns, one row per dict in list order, a missing key as a blank cell.
RECURSIVE Columns(_)
Columns(data_list) ==
    IF data_list = <<>> THEN {}
    ELSE (DOMAIN Head(data_list)) \cup Columns(Tail(data_list))

ToExcel(data_list) ==
    [sheet_name |-> "Factures_Analysees",
     columns |-> Columns(data_list),
     rows |-> [i \in 1..Len(data_list) |->
                 [c \in Columns(data_list) |->
                     IF c \in DOMAIN data_list[i] THEN data_list[i][c] ELSE ""]]]

NoBytes == [sheet_name |-> "", columns |-> {}, rows |-> <<>>]

\* create_excel_attachment: the bytes of the file, or HTTPException(500) when
\* pandas or openpyxl fails.
create_excel_attachment(data_list, fails) ==
    IF fails THEN [raised |-> TRUE, bytes |-> NoBytes]
    ELSE [raised |-> FALSE, bytes |-> ToExcel(data_list)]

\* ------------------------------------------------------------------ the mail
\* How the SMTP session of one call ends: the connection, STARTTLS, the login
\* or sendmail fails; the QUIT sent when the with-block is left is refused
\* after sendmail has succeeded; or everything succeeds.
SmtpOutcomes == {"connect_failed", "starttls_failed", "login_failed",
                 "sendmail_failed", "quit_failed", "ok"}

Message(recipient, client_name, excel_content) ==
    [to |-> recipient,
     subject_name |-> client_name,
     filename_name |-> client_name,
     attachment |-> excel_content]

\* send_email_with_attachment: the messages handed to the relay by the call
\* and whether the call raises HTTPException(500).
send_email_swallowing(recipient, client_name, excel_content, smtp) ==
    [raised |-> FALSE,
     handed |-> IF smtp \in {"quit_failed", "ok"}
                   THEN <<Message(recipient, client_name, excel_content)>>
                   ELSE <<>>]

send_email_with_attachment(recipient, client_name, excel_content, smtp) ==
    [raised |-> smtp # "ok",
     handed |-> IF smtp \in {"quit_failed", "ok"}
                   THEN <<Message(recipient, client_name, excel_content)>>
                   ELSE <<>>]

\* ------------------------------------------------------------- the responses
NoResponse == [code |-> 0, status |-> "", detail |-> "", count |-> 0, email |-> ""]

\* FastAPI's answer to a body that is not a TallySubmission.
Unprocessable ==
    [code |-> 422, status |-> "error", detail |-> "validation", count |-> 0, email |-> ""]

\* An HTTPException(status_code=500, detail=...) raised under the handler, or
\* an exception the handler does not catch.
ServerError(detail) ==
    [code |-> 500, status |-> "error", detail |-> detail, count |-> 0, email |-> ""]

WarningResponse ==
    [code |-> 200, status |-> "warning",
     detail |-> "Aucune URL de facture soumise pour le traitement.",
     count |-> 0, email |-> ""]

SuccessOffByOne(all_data, submission) ==
    [code |-> 200, status |-> "success", detail |-> "",
     count |-> Len(all_data) - 1, email |-> submission.client_email]

SuccessResponse(all_data, submission) ==
    [code |-> 200, status |-> "success", detail |-> "",
     count |-> Len(all_data), email |-> submission.client_email]

\* ---------------------------------------------------------------- the state
VARIABLES
    pc,                  \* where each request is
    payload,             \* the body each request arrived with
    submission,          \* the TallySubmission FastAPI built from it
    idx,                 \* how many URLs the loop has gone through
    all_extracted_data,  \* the handler's list of rows
    excel_file_bytes,    \* the handler's Excel file
    response,            \* what the caller gets back
    aiCalls,             \* the calls of extract_data_with_ai, in order: the URL, and
                         \* whether the call returned (ok) or raised
    builderCalls,        \* the lists create_excel_attachment was called with
    smtpLog,             \* how the SMTP session of each send_email_with_attachment ended
    outbox               \* the messages handed to the SMTP relay

vars == <<pc, payload, submission, idx, all_extracted_data, excel_file_bytes,
          response, aiCalls, builderCalls, smtpLog, outbox>>

Terminal == {"Completed", "Aborted"}

Init ==
    /\ pc = [r \in Reqs |-> "Idle"]
    /\ payload = [r \in Reqs |-> NoPayload]
    /\ submission = [r \in Reqs |-> NoSubmission]
    /\ idx = [r \in Reqs |-> 0]
    /\ all_extracted_data = [r \in Reqs |-> <<>>]
    /\ excel_file_bytes = [r \in Reqs |-> NoBytes]
    /\ response = [r \in Reqs |-> NoResponse]
    /\ aiCalls = [r \in Reqs |-> <<>>]
    /\ builderCalls = [r \in Reqs |-> <<>>]
    /\ smtpLog = [r \in Reqs |-> <<>>]
    /\ outbox = [r \in Reqs |-> <<>>]

\* ------------------------------------------------- the pieces of the handler
\* all_extracted_data = []: a list of the call, not of the module.
NewList(lists, r) == [lists EXCEPT ![r] = <<>>]

\* all_extracted_data.append(extracted_data)
AppendShared(lists, r, row) == [q \in DOMAIN lists |-> Append(lists[q], row)]

AppendRow(lists, r, row) == [lists EXCEPT ![r] = Append(@, row)]

\* for invoice_url in submission.invoice_urls: the loop is over.
LoopStopsEarly(i, urls) == i = Len(urls) \/ i = 1

LoopDone(i, urls) == i = Len(urls)

\* if not all_extracted_data: return the warning.
NeverEmpty(all_data) == FALSE

NothingExtracted(all_data) == all_data = <<>>

\* The two assignments that add the client's data to the row.
WithClient(extracted_data, sub) ==
    SetItem(SetItem(extracted_data, "Client_Email", sub.client_email),
            "Client_Name", sub.client_name)

\* Where the handler stands once the loop is over.
AfterLoop(r, data) ==
    IF NothingExtracted(data)
        THEN /\ pc' = [pc EXCEPT ![r] = "Aborted"]
             /\ response' = [response EXCEPT ![r] = WarningResponse]
        ELSE /\ pc' = [pc EXCEPT ![r] = "Building"]
             /\ UNCHANGED response

\* Where an extraction failure sends the handler.
RetryOnFailure(r, detail) ==
    /\ pc' = [pc EXCEPT ![r] = "Parsed"]
    /\ UNCHANGED response

Fail(r, detail) ==
    /\ pc' = [pc EXCEPT ![r] = "Aborted"]
    /\ response' = [response EXCEPT ![r] = ServerError(detail)]

\* ---------------------------------------------------------------- the steps
\* A submission arrives at POST /tally-processor.
Receive(r) ==
    /\ pc[r] = "Idle"
    /\ \E p \in Payloads : payload' = [payload EXCEPT ![r] = p]
    /\ pc' = [pc EXCEPT ![r] = "Received"]
    /\ UNCHANGED <<submission, idx, all_extracted_data, excel_file_bytes, response,
                   aiCalls, builderCalls, smtpLog, outbox>>

\* FastAPI validates the body against TallySubmission before the handler runs.
Parse(r) ==
    /\ pc[r] = "Received"
    /\ IF Validate(payload[r])
          THEN /\ submission' = [submission EXCEPT ![r] = TallySubmission(payload[r])]
               /\ pc' = [pc EXCEPT ![r] = "Parsed"]
               /\ UNCHANGED response
          ELSE /\ pc' = [pc EXCEPT ![r] = "Aborted"]
               /\ response' = [response EXCEPT ![r] = Unprocessable]
               /\ UNCHANGED submission
    /\ UNCHANGED <<payload, idx, all_extracted_data, excel_file_bytes,
                   aiCalls, builderCalls, smtpLog, outbox>>

\* The handler starts: the empty list, and the loop's first test.
Begin(r) ==
    /\ pc[r] = "Parsed"
    /\ all_extracted_data' = NewList(all_extracted_data, r)
    /\ idx' = [idx EXCEPT ![r] = 0]
    /\ IF LoopDone(0, submission[r].invoice_urls)
          THEN AfterLoop(r, all_extracted_data'[r])
          ELSE /\ pc' = [pc EXCEPT ![r] = "Extracting"]
               /\ UNCHANGED response
    /\ UNCHANGED <<payload, submission, excel_file_bytes,
                   aiCalls, builderCalls, smtpLog, outbox>>

\* One turn of the loop: the extraction of the next URL, the client's data
\* added to the row, the row appended, and the loop's next test.
Extract(r) ==
    /\ pc[r] = "Extracting"
    /\ LET sub == submission[r]
           invoice_url == sub.invoice_urls[idx[r] + 1]
       IN  \E out \in AiOutcomes(invoice_url) :
             LET res == extract_data_with_ai(invoice_url, out)
             IN  /\ aiCalls' = [aiCalls EXCEPT ![r] =
                        Append(@, [url |-> invoice_url, ok |-> res.tag # "HTTPException"])]
                 /\ CASE res.tag = "HTTPException" ->
                           /\ Fail(r, "Erreur dans le traitement par l'IA.")
                           /\ UNCHANGED <<idx, all_extracted_data>>
                      [] res.tag = "list" ->
                           \* extracted_data['Client_Email'] = ... on a list: TypeError
                           /\ Fail(r, "Internal Server Error")
                           /\ UNCHANGED <<idx, all_extracted_data>>
                      [] res.tag = "dict" ->
                           /\ all_extracted_data' =
                                 AppendRow(all_extracted_data, r, WithClient(res.val, sub))
                           /\ idx' = [idx EXCEPT ![r] = @ + 1]
                           /\ IF LoopDone(idx'[r], sub.invoice_urls)
                                 THEN AfterLoop(r, all_extracted_data'[r])
                                 ELSE UNCHANGED <<pc, response>>
    /\ UNCHANGED <<payload, submission, excel_file_bytes,
                   builderCalls, smtpLog, outbox>>

\* excel_file_bytes = create_excel_attachment(all_extracted_data)
Build(r) ==
    /\ pc[r] = "Building"
    /\ builderCalls' = [builderCalls EXCEPT ![r] = Append(@, all_extracted_data[r])]
    /\ \E fails \in BOOLEAN :
         LET res == create_excel_attachment(all_extracted_data[r], fails)
         IN  IF res.raised
                THEN /\ Fail(r, "Erreur lors de la creation du fichier Excel.")
                     /\ UNCHANGED excel_file_bytes
                ELSE /\ excel_file_bytes' = [excel_file_bytes EXCEPT ![r] = res.bytes]
                     /\ pc' = [pc EXCEPT ![r] = "Sending"]
                     /\ UNCHANGED response
    /\ UNCHANGED <<payload, submission, idx, all_extracted_data,
                   aiCalls, smtpLog, outbox>>

\* send_email_with_attachment(...), then the success response.
Send(r) ==
    /\ pc[r] = "Sending"
    /\ \E smtp \in SmtpOutcomes :
         LET res == send_email_with_attachment(submission[r].client_email,
                                               submission[r].client_name,
                                               excel_file_bytes[r], smtp)
         IN  /\ smtpLog' = [smtpLog EXCEPT ![r] = Append(@, smtp)]
             /\ outbox' = [outbox EXCEPT ![r] = @ \o res.handed]
             /\ IF res.raised
                   THEN Fail(r, "Echec de l'envoi d'e-mail")
                   ELSE /\ pc' = [pc EXCEPT ![r] = "Completed"]
                        /\ response' = [response EXCEPT ![r] =
                              SuccessResponse(all_extracted_data[r], submission[r])]
    /\ UNCHANGED <<payload, submission, idx, all_extracted_data, excel_file_bytes,
                   aiCalls, builderCalls>>

Handle(r) == Parse(r) \/ Begin(r) \/ Extract(r) \/ Build(r) \/ Send(r)

\* One submission, from its arrival to its response.
Next == Receive(1) \/ Handle(1)

Spec == Init /\ [][Next]_vars

\* Every call the handler makes returns or fails: a handler that can take a
\* step takes it.
FairSpec == Spec /\ WF_vars(Handle(1))

\* Several submissions in flight at once, their steps interleaved.  Only the
\* bodies FastAPI accepts reach the handler, so only those arrive here; each
\* names an invoice at most once, and the two clients submit in turn (with
\* three requests, one client has two submissions in flight).
NoRepeat(us) == \A i, j \in 1..Len(us) : us[i] = us[j] => i = j

ClientOf(r) == IF r % 2 = 1 THEN "a@x.fr" ELSE "b@x.fr"

ConcPayloads(r) ==
    { [keys |-> Keys, invoice_urls |-> us, client_email |-> ClientOf(r), client_name |-> n] :
      us \in {l \in UrlLists : NoRepeat(l)}, n \in Names }

ReceiveValid(r) ==
    /\ pc[r] = "Idle"
    /\ \E p \in ConcPayloads(r) : payload' = [payload EXCEPT ![r] = p]
    /\ pc' = [pc EXCEPT ![r] = "Received"]
    /\ UNCHANGED <<submission, idx, all_extracted_data, excel_file_bytes, response,
                   aiCalls, builderCalls, smtpLog, outbox>>

ConcNext == \E r \in Reqs : ReceiveValid(r) \/ Handle(r)

ConcSpec == Init /\ [][ConcNext]_vars

\* ---------------------------------------------------------------- the claims
\* FastAPI accepted the body of request r and built its TallySubmission.
Accepted(r) == submission[r] # NoSubmission

UrlsOf(r) == submission[r].invoice_urls

\* The row the handler makes of the invoice at url u for the submission sub.
RowOf(sub, u) ==
    [invoice_number |-> InvoiceNumber(u), supplier_name |-> "N/A",
     Client_Email |-> sub.client_email, Client_Name |-> sub.client_name]

\* The list is the rows of the first Len(data) URLs of sub, in order.
RowsOfOwnUrls(data, sub) ==
    /\ Len(data) <= Len(sub.invoice_urls)
    /\ \A i \in 1..Len(data) : data[i] = RowOf(sub, sub.invoice_urls[i])

\* Some field of the row holds the value v.
HasValue(row, v) == \E f \in DOMAIN row : row[f] = v

ExtractionDetail == "Erreur dans le traitement par l'IA."

\* C1 (as claimed): a request for n >= 1 URLs that has ended has called the
\* extractor exactly n times, once per URL in input order, and any list it
\* handed to the report builder has n rows, the i-th made from the i-th URL.
C1_AsClaimed ==
    \A r \in Reqs :
        (Accepted(r) /\ Len(UrlsOf(r)) >= 1 /\ pc[r] \in Terminal) =>
            /\ [i \in 1..Len(aiCalls[r]) |-> aiCalls[r][i].url] = UrlsOf(r)
            /\ \A k \in 1..Len(builderCalls[r]) :
                 /\ Len(builderCalls[r][k]) = Len(UrlsOf(r))
                 /\ RowsOfOwnUrls(builderCalls[r][k], submission[r])

\* C2 (as claimed): an extraction that failed for the i-th URL left an
\* error-flagged row at place i of the list, and the request was not aborted
\* with the extraction's error.
C2_AsClaimed ==
    \A r \in Reqs :
        \A i \in 1..Len(aiCalls[r]) :
            ~aiCalls[r][i].ok =>
                /\ Len(all_extracted_data[r]) >= i
                /\ "error" \in DOMAIN all_extracted_data[r][i]
                /\ response[r].detail # ExtractionDetail

\* C3 (as claimed): every row of a list handed to the report builder holds,
\* in one of its fields, the URL it was extracted from.
C3_AsClaimed ==
    \A r \in Reqs :
        \A k \in 1..Len(builderCalls[r]) :
            \A i \in 1..Len(builderCalls[r][k]) :
                /\ i <= Len(UrlsOf(r))
                /\ HasValue(builderCalls[r][k][i], UrlsOf(r)[i])

\* C4: a request whose URL list is empty never calls the extractor, the
\* report builder or the notifier, hands no message to the relay, and ends
\* with the warning.
C4_EmptyListShortCircuits ==
    \A r \in Reqs :
        (Accepted(r) /\ UrlsOf(r) = <<>>) =>
            /\ aiCalls[r] = <<>>
            /\ builderCalls[r] = <<>>
            /\ smtpLog[r] = <<>>
            /\ outbox[r] = <<>>
            /\ pc[r] \in {"Parsed", "Aborted"}
            /\ (pc[r] = "Aborted" => response[r] = WarningResponse)

C4_Witness ==
    \E r \in Reqs :
        Accepted(r) /\ UrlsOf(r) = <<>> /\ pc[r] = "Aborted"
        /\ response[r].status = "warning"

\* C5: a request whose SMTP session failed has ended with a 500 and not with
\* success, ran the notifier once and the report builder once.
C5_MailFailureIs500 ==
    \A r \in Reqs :
        (\E i \in 1..Len(smtpLog[r]) : smtpLog[r][i] # "ok") =>
            /\ pc[r] = "Aborted"
            /\ response[r].code = 500
            /\ response[r].status # "success"
            /\ Len(smtpLog[r]) = 1
            /\ Len(builderCalls[r]) = 1

C5_Witness ==
    \E r \in Reqs :
        smtpLog[r] = <<"login_failed">> /\ pc[r] = "Aborted" /\ response[r].code = 500

\* C6: the report builder runs at most once, after the loop has gone through
\* all n URLs, on the whole list; the notifier runs at most once, after the
\* report builder has returned the file; a message is handed to the relay
\* only by a request whose loop and build are complete.
C6_StagesInSequence ==
    \A r \in Reqs :
        /\ Len(builderCalls[r]) <= 1
        /\ builderCalls[r] # <<>> =>
              /\ idx[r] = Len(UrlsOf(r))
              /\ Len(aiCalls[r]) = Len(UrlsOf(r))
              /\ \A i \in 1..Len(aiCalls[r]) : aiCalls[r][i].ok
              /\ builderCalls[r][1] = all_extracted_data[r]
              /\ Len(builderCalls[r][1]) = Len(UrlsOf(r))
        /\ Len(smtpLog[r]) <= 1
        /\ smtpLog[r] # <<>> =>
              /\ Len(builderCalls[r]) = 1
              /\ excel_file_bytes[r] # NoBytes
              /\ Len(excel_file_bytes[r].rows) = Len(UrlsOf(r))
        /\ outbox[r] # <<>> =>
              /\ Len(smtpLog[r]) = 1
              /\ Len(builderCalls[r]) = 1
              /\ Len(aiCalls[r]) = Len(UrlsOf(r))

C6_Witness ==
    \E r \in Reqs :
        Len(UrlsOf(r)) = 2 /\ outbox[r] # <<>> /\ pc[r] = "Completed"

\* C7: with several requests in flight, the list and the file of a request
\* hold the rows of its own URLs with its own client's data, in order, and
\* every message handed to the relay for it goes to its own recipient and
\* carries exactly the rows of its own URLs.
C7_RequestsAreIsolated ==
    \A r \in Reqs :
        /\ RowsOfOwnUrls(all_extracted_data[r], submission[r])
        /\ RowsOfOwnUrls(excel_file_bytes[r].rows, submission[r])
        /\ \A m \in 1..Len(outbox[r]) :
              /\ outbox[r][m].to = submission[r].client_email
              /\ Len(outbox[r][m].attachment.rows) = Len(UrlsOf(r))
              /\ RowsOfOwnUrls(outbox[r][m].attachment.rows, submission[r])

C7_Witness ==
    \E r, q \in Reqs :
        /\ r # q
        /\ outbox[r] # <<>> /\ Len(UrlsOf(r)) = 2
        /\ pc[q] = "Sending" /\ aiCalls[q] # <<>>
        /\ submission[q].client_email # submission[r].client_email
        /\ UrlsOf(q) # UrlsOf(r)

\* C8: a request whose body lacks client_email or invoice_urls never reaches
\* the handler: it makes no call to the AI model, the report builder or the
\* relay, and it ends with a 422.
C8_MissingFieldRejected ==
    \A r \in Reqs :
        (pc[r] # "Idle" /\ ("client_email" \notin payload[r].keys
                            \/ "invoice_urls" \notin payload[r].keys)) =>
            /\ pc[r] \in {"Received", "Aborted"}
            /\ (pc[r] = "Aborted" => response[r].code = 422)
            /\ aiCalls[r] = <<>>
            /\ builderCalls[r] = <<>>
            /\ smtpLog[r] = <<>>
            /\ outbox[r] = <<>>

C8_Witness ==
    \E r \in Reqs :
        /\ payload[r].keys = {"invoice_urls", "client_name"}
        /\ Len(payload[r].invoice_urls) = 2
        /\ pc[r] = "Aborted" /\ response[r].code = 422

\* C9: a request that answers success has handed exactly one message to the
\* relay, addressed to the submission's client_email and carrying the file
\* of its n rows, and the count it reports is n.
C9_SuccessMeansOneEmail ==
    \A r \in Reqs :
        response[r].status = "success" =>
            /\ pc[r] = "Completed"
            /\ Len(outbox[r]) = 1
            /\ outbox[r][1].to = payload[r].client_email
            /\ outbox[r][1].attachment = excel_file_bytes[r]
            /\ Len(outbox[r][1].attachment.rows) = Len(payload[r].invoice_urls)
            /\ response[r].count = Len(payload[r].invoice_urls)

C9_Witness ==
    \E r \in Reqs :
        response[r].status = "success" /\ response[r].count = 2

\* C10: a request moves along Received, Parsed, Extracting, Building,
\* Sending, Completed, or leaves to Aborted: no stage is entered again, the
\* extraction index only grows (by one per turn of the loop), the two ends
\* are final; and when every call returns or fails, a request that was
\* received reaches Completed or Aborted.
Edges ==
    { <<"Idle", "Received">>,
      <<"Received", "Parsed">>, <<"Received", "Aborted">>,
      <<"Parsed", "Extracting">>, <<"Parsed", "Aborted">>,
      <<"Extracting", "Building">>, <<"Extracting", "Aborted">>,
      <<"Building", "Sending">>, <<"Building", "Aborted">>,
      <<"Sending", "Completed">>, <<"Sending", "Aborted">> }

LinearStep(r) ==
    /\ pc'[r] # pc[r] => <<pc[r], pc'[r]>> \in Edges
    /\ idx'[r] >= idx[r]
    /\ (pc[r] = "Extracting" /\ pc'[r] = "Extracting" /\ idx'[r] # idx[r]) =>
           idx'[r] = idx[r] + 1
    /\ pc[r] # "Extracting" => idx'[r] = idx[r]

C10_LinearAndTerminates ==
    /\ [][\A r \in Reqs : LinearStep(r)]_vars
    /\ \A r \in Reqs : (pc[r] = "Received") ~> (pc[r] \in Terminal)

C10_Witness ==
    \E r \in Reqs : pc[r] = "Completed" /\ idx[r] = 2

====
